---- MODULE Spec2Model ----
(***************************************************************************)
(* Model of the horizon indexer's driving loop (indexer/src/main.rs,       *)
(* listen_blocks) together with the library steps it calls                 *)
(* (collect_transactions, filter_outcomes, process_outcome), the bounded   *)
(* block channel in front of it and the Sink behind it; and of the         *)
(* horizon token contract (token/src/lib.rs), whose calls form the         *)
(* specification TokenSpec.                                                *)
(***************************************************************************)
EXTENDS Integers, Sequences, FiniteSets, TLC

(***************************************************************************)
(* Bounds of the model.                                                    *)
(***************************************************************************)
MaxBlocks == 3

Capacity == 2

(***************************************************************************)
(* Universes.                                                              *)
(***************************************************************************)
Accounts == {"alice.test", "bob.test"}

watching_list == {"alice.test"}

TxHashes == <<"T1", "T2">>

ReceiptIds == <<"R1", "R2", "R3">>

NoBlock == [height |-> 0, timestamp |-> 0, shards |-> <<>>]

NoTx ==
    [state |-> "none", receiver |-> "", actions |-> <<>>, seed |-> "", born |-> 0,
     cur |-> "", curRecv |-> "", ready |-> 0, hops |-> 0, term |-> 0, pos |-> 0]

(* The shard an account lives on; shards are numbered in iteration order.  *)
ShardOf(a) == IF a = "alice.test" THEN 1 ELSE 2

NumShards == Cardinality({ShardOf(a) : a \in Accounts})

(***************************************************************************)
(* Actions of a receipt.  A FunctionCall carries a method name and a       *)
(* base64 payload; the payloads are real base64 strings.                   *)
(***************************************************************************)
ArgsP1 == "eyJhY2NvdW50X2lkIjoicDEifQ=="

ArgsP2 == "eyJhY2NvdW50X2lkIjoicDIifQ=="

ArgsNotJson == "bm90IGpzb24="

ArgsNotBase64 == "!!!"

FunctionCall(m, a) == [kind |-> "FunctionCall", method_name |-> m, args |-> a]

Transfer == [kind |-> "Transfer", method_name |-> "", args |-> ""]

OneGood == <<FunctionCall("add_project", ArgsP1)>>

BadThenGood ==
    <<FunctionCall("add_project", ArgsNotBase64), FunctionCall("edit_project", ArgsP2)>>

Mixed ==
    <<FunctionCall("add_project", ArgsP1), Transfer,
      FunctionCall("edit_project", ArgsNotJson), FunctionCall("edit_project", ArgsP2)>>

NoneGood == <<FunctionCall("add_project", ArgsNotJson)>>

ActionLists == {OneGood, BadThenGood, Mixed, NoneGood}

(***************************************************************************)
(* base64 decoding and JSON parsing, on the payloads of the model.         *)
(***************************************************************************)
Base64Decode(s) ==
    CASE s = ArgsP1 -> [ok |-> TRUE, bytes |-> "{\"account_id\":\"p1\"}"]
      [] s = ArgsP2 -> [ok |-> TRUE, bytes |-> "{\"account_id\":\"p2\"}"]
      [] s = ArgsNotJson -> [ok |-> TRUE, bytes |-> "not json"]
      [] OTHER -> [ok |-> FALSE, bytes |-> ""]

ParseJson(b) ==
    CASE b = "{\"account_id\":\"p1\"}" -> [ok |-> TRUE, value |-> [account_id |-> "p1"]]
      [] b = "{\"account_id\":\"p2\"}" -> [ok |-> TRUE, value |-> [account_id |-> "p2"]]
      [] OTHER -> [ok |-> FALSE, value |-> [account_id |-> ""]]

(***************************************************************************)
(* HashMap<String, String>, as the set of its (key, value) entries.        *)
(***************************************************************************)
Keys(m) == {e[1] : e \in m}

HashMapGet(m, k) == (CHOOSE e \in m : e[1] = k)[2]

HashMapRemove(m, k) == {e \in m : e[1] # k}

HashMapInsert_Push(m, k, v) == m \cup {<<k, v>>}

HashMapInsert(m, k, v) == {e \in m : e[1] # k} \cup {<<k, v>>}

RECURSIVE HashMapExtend(_, _)
HashMapExtend(m, pairs) ==
    IF pairs = <<>> THEN m
    ELSE HashMapExtend(HashMapInsert(m, pairs[1][1], pairs[1][2]), Tail(pairs))

(***************************************************************************)
(* Iteration over a block: shard by shard, position by position.           *)
(***************************************************************************)
RECURSIVE FlatOutcomes(_)
FlatOutcomes(shards) ==
    IF shards = <<>> THEN <<>>
    ELSE shards[1].outcomes \o FlatOutcomes(Tail(shards))

RECURSIVE FlatTransactions(_)
FlatTransactions(shards) ==
    IF shards = <<>> THEN <<>>
    ELSE shards[1].transactions \o FlatTransactions(Tail(shards))

(***************************************************************************)
(* Seeder.                                                                 *)
(***************************************************************************)
RECURSIVE SeedPairs(_, _)
SeedPairs(txs, watch) ==
    IF txs = <<>> THEN <<>>
    ELSE (IF txs[1].receiver_id \in watch
          THEN <<<<txs[1].receipt_id, txs[1].hash>>>>
          ELSE <<>>) \o SeedPairs(Tail(txs), watch)

collect_transactions(msg, watch) == SeedPairs(FlatTransactions(msg.shards), watch)

(***************************************************************************)
(* Outcome Filter: one outcome, then the fold over the block.              *)
(***************************************************************************)
FilterStep_EmitFailed(acc, o) ==
    IF o.receipt.receipt_id \notin Keys(acc.map) THEN acc
    ELSE LET h == HashMapGet(acc.map, o.receipt.receipt_id)
             rest == HashMapRemove(acc.map, o.receipt.receipt_id)
         IN CASE o.status.kind = "ForwardTo" ->
                   [map |-> HashMapInsert(rest, o.status.receipt_id, h), out |-> acc.out]
              [] OTHER -> [map |-> rest, out |-> Append(acc.out, <<o, h>>)]

FilterStep_TrackUntracked(acc, o) ==
    IF o.receipt.receipt_id \notin Keys(acc.map)
    THEN (IF o.status.kind = "ForwardTo"
          THEN [map |-> HashMapInsert(acc.map, o.status.receipt_id, ""), out |-> acc.out]
          ELSE acc)
    ELSE LET h == HashMapGet(acc.map, o.receipt.receipt_id)
             rest == HashMapRemove(acc.map, o.receipt.receipt_id)
         IN CASE o.status.kind = "ForwardTo" ->
                   [map |-> HashMapInsert(rest, o.status.receipt_id, h), out |-> acc.out]
              [] o.status.kind = "FinalValue" ->
                   [map |-> rest, out |-> Append(acc.out, <<o, h>>)]
              [] OTHER -> [map |-> rest, out |-> acc.out]

FilterStep(acc, o) ==
    IF o.receipt.receipt_id \notin Keys(acc.map) THEN acc
    ELSE LET h == HashMapGet(acc.map, o.receipt.receipt_id)
             rest == HashMapRemove(acc.map, o.receipt.receipt_id)
         IN CASE o.status.kind = "ForwardTo" ->
                   [map |-> HashMapInsert(rest, o.status.receipt_id, h), out |-> acc.out]
              [] o.status.kind = "FinalValue" ->
                   [map |-> rest, out |-> Append(acc.out, <<o, h>>)]
              [] OTHER -> [map |-> rest, out |-> acc.out]

RECURSIVE FilterFold(_, _)
FilterFold(acc, os) ==
    IF os = <<>> THEN acc ELSE FilterFold(FilterStep(acc, os[1]), Tail(os))

filter_outcomes(msg, m) == FilterFold([map |-> m, out |-> <<>>], FlatOutcomes(msg.shards))

(* The steps of the fold, one per outcome of the block, in order. *)
RECURSIVE FilterTrace(_, _)
FilterTrace(acc, os) ==
    IF os = <<>> THEN <<>>
    ELSE LET next == FilterStep(acc, os[1])
         IN <<[before |-> acc, outcome |-> os[1], after |-> next]>>
              \o FilterTrace(next, Tail(os))

(***************************************************************************)
(* Outcome Decoder.                                                        *)
(***************************************************************************)
DecodeAction(a, tx_hash, receiver, ts) ==
    IF a.kind # "FunctionCall" THEN <<>>
    ELSE LET d == Base64Decode(a.args)
         IN IF ~d.ok THEN <<>>
            ELSE LET j == ParseJson(d.bytes)
                 IN IF ~j.ok THEN <<>>
                    ELSE <<[hash |-> tx_hash, receiver |-> receiver,
                            method_name |-> a.method_name, args |-> j.value,
                            timestamp |-> ts]>>

RECURSIVE DecodeActions_AbortOnError(_, _, _, _)
DecodeActions_AbortOnError(as, tx_hash, receiver, ts) ==
    IF as = <<>> THEN <<>>
    ELSE IF as[1].kind = "FunctionCall" /\ DecodeAction(as[1], tx_hash, receiver, ts) = <<>>
         THEN <<>>
         ELSE DecodeAction(as[1], tx_hash, receiver, ts)
                \o DecodeActions_AbortOnError(Tail(as), tx_hash, receiver, ts)

RECURSIVE DecodeActions(_, _, _, _)
DecodeActions(as, tx_hash, receiver, ts) ==
    IF as = <<>> THEN <<>>
    ELSE DecodeAction(as[1], tx_hash, receiver, ts)
           \o DecodeActions(Tail(as), tx_hash, receiver, ts)

process_outcome(o, tx_hash, block) ==
    DecodeActions(o.receipt.actions, tx_hash, o.receipt.receiver_id, block.timestamp)

RECURSIVE FlatMapProcess(_, _)
FlatMapProcess(pairs, block) ==
    IF pairs = <<>> THEN <<>>
    ELSE process_outcome(pairs[1][1], pairs[1][2], block)
           \o FlatMapProcess(Tail(pairs), block)

(***************************************************************************)
(* The token contract (src/token/src/lib.rs).  A contract state is a       *)
(* record: the Contract struct's allowlist and fund_amount, the owner      *)
(* slot of the Owner component and the account balances and total supply   *)
(* of the FungibleToken component.  A method is an operator from the state *)
(* before the call to a result [err, st, log]: err is OK or the message of *)
(* the panic that aborted the call, st the state the method had built when *)
(* it returned or panicked, log the transfers it attempted.  The caller of *)
(* a method (the actions below) keeps st only when err = OK: a panic       *)
(* reverts every write of the call.                                        *)
(***************************************************************************)
MaxAmount == 2

MaxSupply == 2

MaxBatch == 2

TokenAccounts == {"bob.near", "alice.near", "carol.near"}

NoAccount == "none"

AttachedDeposits == {0, 1, 2}

None == [some |-> FALSE, value |-> 0]

Some(v) == [some |-> TRUE, value |-> v]

OK == "OK"

ONE_NHZN == 1000

decimals == 4

Default ==
    [owner |-> NoAccount, allowlist |-> {}, fund_amount |-> 0,
     balances |-> [a \in TokenAccounts |-> 0], total_supply |-> 0]

Return(st) == [err |-> OK, st |-> st, log |-> <<>>]

Panic(st, message) == [err |-> message, st |-> st, log |-> <<>>]

own_get_owner(st) == st.owner

ft_balance_of(st, account_id) == st.balances[account_id]

ft_total_supply(st) == st.total_supply

on_allowlist(st, account_id) == account_id \in st.allowlist

assert_owner_Anyone(st, predecessor) == OK

assert_owner(st, predecessor) ==
    IF predecessor = own_get_owner(st) THEN OK ELSE "Owner only"

assert_one_yocto(attached) ==
    IF attached = 1 THEN OK ELSE "Requires attached deposit of exactly 1 yoctoNEAR"

(* A method without #[payable] panics when a deposit is attached. *)
not_payable(attached) ==
    IF attached = 0 THEN OK ELSE "Method doesn't accept deposit"

AllowlistInsert(st, account_id) ==
    [st EXCEPT !.allowlist = @ \cup {account_id}]

AllowlistRemove(st, account_id) ==
    [st EXCEPT !.allowlist = @ \ {account_id}]

(* Nep141Controller::deposit_unchecked: balance and total supply grow by   *)
(* amount (checked_add; the guards of the actions keep both below the u128 *)
(* limit, so the overflow panics are out of reach).                        *)
deposit_unchecked_BalanceOnly(st, account_id, amount) ==
    Return([st EXCEPT !.balances[account_id] = @ + amount])

deposit_unchecked(st, account_id, amount) ==
    Return([st EXCEPT !.balances[account_id] = @ + amount,
                      !.total_supply = @ + amount])

(* Nep141Hook::before_transfer of the contract. *)
before_transfer_SenderOnly(st, sender_id, receiver_id) ==
    IF ~on_allowlist(st, sender_id) THEN "ERR_SENDER_NOT_REGISTERED" ELSE OK

before_transfer(st, sender_id, receiver_id) ==
    IF ~on_allowlist(st, sender_id) THEN "ERR_SENDER_NOT_REGISTERED"
    ELSE IF ~on_allowlist(st, receiver_id) THEN "ERR_RECEIVER_NOT_REGISTERED"
    ELSE OK

(* Nep141Controller::transfer_unchecked: both balances are read, then the  *)
(* sender's slot is written, then the receiver's.                          *)
transfer_unchecked(st, sender_id, receiver_id, amount) ==
    IF ft_balance_of(st, sender_id) < amount
    THEN Panic(st, "Sender balance underflow")
    ELSE LET sender_balance == ft_balance_of(st, sender_id) - amount
             receiver_balance == ft_balance_of(st, receiver_id) + amount
             w1 == [st EXCEPT !.balances[sender_id] = sender_balance]
         IN  Return([w1 EXCEPT !.balances[receiver_id] = receiver_balance])

(* Nep141Controller::transfer: the hook, then the unchecked transfer.  The *)
(* log entry records the attempt and the allowlist the hook saw.           *)
TransferEntry(st, sender_id, receiver_id, amount, r) ==
    [sender |-> sender_id, receiver |-> receiver_id, amount |-> amount,
     sender_listed |-> on_allowlist(st, sender_id),
     receiver_listed |-> on_allowlist(st, receiver_id),
     err |-> r.err, before |-> st.balances, after |-> r.st.balances,
     supply_before |-> st.total_supply, supply_after |-> r.st.total_supply]

transfer(st, sender_id, receiver_id, amount) ==
    LET hook == before_transfer(st, sender_id, receiver_id)
        r == IF hook # OK THEN Panic(st, hook)
             ELSE transfer_unchecked(st, sender_id, receiver_id, amount)
    IN  [r EXCEPT !.log = <<TransferEntry(st, sender_id, receiver_id, amount, r)>>]

(* Nep141::ft_transfer of the derived FungibleToken implementation. *)
ft_transfer(st, predecessor, attached, receiver_id, amount) ==
    IF assert_one_yocto(attached) # OK THEN Panic(st, assert_one_yocto(attached))
    ELSE transfer(st, predecessor, receiver_id, amount)

new(owner_id, total_supply, fund_amount) ==
    LET contract0 == [Default EXCEPT
                        !.fund_amount = IF fund_amount.some THEN fund_amount.value
                                        ELSE 50000 * ONE_NHZN]
        owned == [contract0 EXCEPT !.owner = owner_id]
        listed == AllowlistInsert(owned, owner_id)
    IN  deposit_unchecked(listed, owner_id, total_supply).st

add_deposit(st, predecessor, attached, deposit) ==
    IF assert_owner(st, predecessor) # OK THEN Panic(st, assert_owner(st, predecessor))
    ELSE IF assert_one_yocto(attached) # OK THEN Panic(st, assert_one_yocto(attached))
    ELSE deposit_unchecked(st, own_get_owner(st), deposit)

register_holder(st, predecessor, attached, account_id) ==
    IF assert_owner(st, predecessor) # OK THEN Panic(st, assert_owner(st, predecessor))
    ELSE IF assert_one_yocto(attached) # OK THEN Panic(st, assert_one_yocto(attached))
    ELSE Return(AllowlistInsert(st, account_id))

remove_holder(st, predecessor, attached, account_id) ==
    IF not_payable(attached) # OK THEN Panic(st, not_payable(attached))
    ELSE IF assert_owner(st, predecessor) # OK THEN Panic(st, assert_owner(st, predecessor))
    ELSE Return(AllowlistRemove(st, account_id))

claim_credits(st, predecessor, attached) ==
    IF assert_one_yocto(attached) # OK THEN Panic(st, assert_one_yocto(attached))
    ELSE LET claimer == predecessor
         IN  transfer(st, claimer, own_get_owner(st), ft_balance_of(st, claimer))

(* The body of the funding methods after their two assertions: for each    *)
(* account id in order, insert it into the allowlist and transfer amount   *)
(* from the owner to it; the first panic ends the call.                    *)
RECURSIVE FundEach(_, _, _)
FundEach(r, account_ids, amount) ==
    IF r.err # OK \/ account_ids = <<>> THEN r
    ELSE LET listed == AllowlistInsert(r.st, Head(account_ids))
             t == transfer(listed, own_get_owner(listed), Head(account_ids), amount)
         IN  FundEach([t EXCEPT !.log = r.log \o t.log], Tail(account_ids), amount)

fund_program_participant(st, predecessor, attached, account_id) ==
    IF assert_owner(st, predecessor) # OK THEN Panic(st, assert_owner(st, predecessor))
    ELSE IF assert_one_yocto(attached) # OK THEN Panic(st, assert_one_yocto(attached))
    ELSE LET listed == AllowlistInsert(st, account_id)
         IN  transfer(listed, own_get_owner(listed), account_id, listed.fund_amount)

fund_program_participants(st, predecessor, attached, account_ids) ==
    IF assert_owner(st, predecessor) # OK THEN Panic(st, assert_owner(st, predecessor))
    ELSE IF assert_one_yocto(attached) # OK THEN Panic(st, assert_one_yocto(attached))
    ELSE FundEach(Return(st), account_ids, st.fund_amount)

fund_program_participant_with_amount(st, predecessor, attached, account_id, amount) ==
    IF assert_owner(st, predecessor) # OK THEN Panic(st, assert_owner(st, predecessor))
    ELSE IF assert_one_yocto(attached) # OK THEN Panic(st, assert_one_yocto(attached))
    ELSE LET listed == AllowlistInsert(st, account_id)
         IN  transfer(listed, own_get_owner(listed), account_id, amount)

fund_program_participants_with_amount(st, predecessor, attached, account_ids, amount) ==
    IF assert_owner(st, predecessor) # OK THEN Panic(st, assert_owner(st, predecessor))
    ELSE IF assert_one_yocto(attached) # OK THEN Panic(st, assert_one_yocto(attached))
    ELSE FundEach(Return(st), account_ids, amount)

(***************************************************************************)
(* State.                                                                  *)
(*   chain, nRid, sentCount, closed : the chain behind the Block Source    *)
(*   queue                          : the bounded channel                  *)
(*   pc, msg, tx_receipt_ids, txs   : listen_blocks                        *)
(*   inflight, sink                 : the Sink                             *)
(*   received, emissions, emitted, mapAfterSeed, collided : history        *)
(*   steps  : the Outcome Filter's steps on the last block (history)       *)
(*   contract                       : the token contract's state           *)
(*   call                           : the last call to it (history)        *)
(***************************************************************************)
VARIABLES chain, nRid, sentCount, closed, queue,
          pc, msg, tx_receipt_ids, txs, inflight, sink,
          received, emissions, emitted, mapAfterSeed, collided, steps,
          contract, call

vars == <<chain, nRid, sentCount, closed, queue,
          pc, msg, tx_receipt_ids, txs, inflight, sink,
          received, emissions, emitted, mapAfterSeed, collided, steps,
          contract, call>>

envVars == <<chain, nRid, sentCount, closed>>

loopVars == <<pc, msg, tx_receipt_ids, txs, inflight, sink,
              received, emissions, emitted, mapAfterSeed, collided, steps>>

tokenVars == <<contract, call>>

indexerVars == <<envVars, queue, loopVars>>

NoCall ==
    [method |-> "none", predecessor |-> NoAccount, attached |-> 0,
     account_ids |-> <<>>, amount |-> 0, fund_amount |-> None,
     err |-> OK, log |-> <<>>, pre |-> Default]

InitIndexer ==
    /\ chain = [i \in 1..Len(TxHashes) |-> NoTx]
    /\ nRid = 0
    /\ sentCount = 0
    /\ closed = FALSE
    /\ queue = <<>>
    /\ pc = "recv"
    /\ msg = NoBlock
    /\ tx_receipt_ids = {}
    /\ txs = <<>>
    /\ inflight = <<>>
    /\ sink = <<>>
    /\ received = <<>>
    /\ emissions = <<>>
    /\ emitted = <<>>
    /\ mapAfterSeed = {}
    /\ collided = {}
    /\ steps = <<>>

Init ==
    /\ InitIndexer
    /\ contract = Default
    /\ call = NoCall

(***************************************************************************)
(* The chain behind the Block Source.  Every block may carry one new       *)
(* transaction (fresh hash, fresh seed receipt id) and executes some of    *)
(* the pending receipts; a receipt created by ForwardTo is executed in a   *)
(* later block, a seed receipt may be executed in its transaction's block. *)
(***************************************************************************)
Height(n) == 99 + n

Timestamp(h) == h * 1000

NewTxChoices ==
    {[new |-> FALSE, receiver |-> "", actions |-> <<>>]}
      \cup {[new |-> TRUE, receiver |-> a, actions |-> al] : a \in Accounts, al \in ActionLists}

StatusChoices ==
    {[kind |-> "FinalValue", recv |-> ""], [kind |-> "Failed", recv |-> ""]}
      \cup {[kind |-> "ForwardTo", recv |-> a] : a \in Accounts}

FreshTx(c) == CHOOSE i \in DOMAIN c : c[i].state = "none" /\ \A j \in 1..(i - 1) : c[j].state # "none"

WithNewTx(c, nt, h, rid) ==
    [c EXCEPT ![FreshTx(c)] =
        [state |-> "pending", receiver |-> nt.receiver, actions |-> nt.actions,
         seed |-> rid, born |-> h, cur |-> rid, curRecv |-> nt.receiver,
         ready |-> h, hops |-> 0, term |-> 0, pos |-> 0]]

Executable(c, h) == {i \in DOMAIN c : c[i].state = "pending" /\ c[i].ready <= h}

Orders(E) ==
    {s \in UNION {[1..n -> E] : n \in 0..Cardinality(E)} :
        \A i, j \in DOMAIN s : i # j => s[i] # s[j]}

ForwardsBefore(ch, i) == Cardinality({j \in 1..(i - 1) : ch[j].kind = "ForwardTo"})

OutcomeOf(c, ord, ch, base, i) ==
    [receipt |-> [receipt_id |-> c[ord[i]].cur, receiver_id |-> c[ord[i]].curRecv,
                  actions |-> c[ord[i]].actions],
     status |-> [kind |-> ch[i].kind,
                 receipt_id |-> IF ch[i].kind = "ForwardTo"
                                THEN ReceiptIds[base + ForwardsBefore(ch, i) + 1]
                                ELSE ""]]

ShardOutcomes(os, k) ==
    LET InShard(o) == ShardOf(o.receipt.receiver_id) = k
    IN SelectSeq(os, InShard)

BuildBlock(h, newTxs, os) ==
    [height |-> h, timestamp |-> Timestamp(h),
     shards |-> [k \in 1..NumShards |->
                   [transactions |-> LET InShard(t) == ShardOf(t.receiver_id) = k
                                     IN SelectSeq(newTxs, InShard),
                    outcomes |-> ShardOutcomes(os, k)]]]

PosOf(flat, rid) == CHOOSE i \in 1..Len(flat) : flat[i].receipt.receipt_id = rid

Executed(c, ord, ch, base, h, flat) ==
    [t \in DOMAIN c |->
       IF \E i \in DOMAIN ord : ord[i] = t
       THEN LET i == CHOOSE i \in DOMAIN ord : ord[i] = t
            IN CASE ch[i].kind = "ForwardTo" ->
                      [c[t] EXCEPT !.cur = ReceiptIds[base + ForwardsBefore(ch, i) + 1],
                                   !.curRecv = ch[i].recv,
                                   !.ready = h + 1,
                                   !.hops = @ + 1]
                 [] ch[i].kind = "FinalValue" ->
                      [c[t] EXCEPT !.state = "final", !.term = h,
                                   !.pos = PosOf(flat, c[t].cur)]
                 [] OTHER ->
                      [c[t] EXCEPT !.state = "failed", !.term = h,
                                   !.pos = PosOf(flat, c[t].cur)]
       ELSE c[t]]

SendWith(txChoices, statusChoices) ==
    /\ ~closed
    /\ pc \notin {"done", "panicked"}
    /\ sentCount < MaxBlocks
    /\ Len(queue) < Capacity
    /\ \E nt \in txChoices :
         /\ nt.new => (\E i \in DOMAIN chain : chain[i].state = "none") /\ nRid < Len(ReceiptIds)
         /\ LET h == Height(sentCount + 1)
                base == IF nt.new THEN nRid + 1 ELSE nRid
                c1 == IF nt.new THEN WithNewTx(chain, nt, h, ReceiptIds[nRid + 1]) ELSE chain
                newTxs == IF nt.new
                          THEN <<[hash |-> TxHashes[FreshTx(chain)], signer_id |-> "signer.test",
                                  receiver_id |-> nt.receiver, receipt_id |-> ReceiptIds[nRid + 1]]>>
                          ELSE <<>>
            IN \E ord \in Orders(Executable(c1, h)) :
                 \E ch \in [DOMAIN ord -> statusChoices] :
                   LET nFwd == ForwardsBefore(ch, Len(ord) + 1)
                       os == [i \in DOMAIN ord |-> OutcomeOf(c1, ord, ch, base, i)]
                       b == BuildBlock(h, newTxs, os)
                   IN /\ base + nFwd <= Len(ReceiptIds)
                      /\ chain' = Executed(c1, ord, ch, base, h, FlatOutcomes(b.shards))
                      /\ nRid' = base + nFwd
                      /\ queue' = Append(queue, b)
    /\ sentCount' = sentCount + 1
    /\ UNCHANGED closed
    /\ UNCHANGED loopVars
    /\ UNCHANGED tokenVars

Send == SendWith(NewTxChoices, StatusChoices)

(* The same source over fewer choices: calls to alice.test that forward to *)
(* alice.test or finish.                                                   *)
LiveTxChoices == {nt \in NewTxChoices : nt.new => nt.receiver = "alice.test" /\ nt.actions = Mixed}

LiveStatusChoices == {st \in StatusChoices : st.kind # "Failed" /\ st.recv # "bob.test"}

SendLive == SendWith(LiveTxChoices, LiveStatusChoices)

(* The chain with one well-formed call in every transaction: all the      *)
(* receivers, statuses and orders of the chain above, for following the    *)
(* receipts through the Correlation Map.                                   *)
TrackTxChoices == {nt \in NewTxChoices : nt.new => nt.actions = OneGood}

SendTracked == SendWith(TrackTxChoices, StatusChoices)

(***************************************************************************)
(* A block source under no well-formedness assumption: a block with at     *)
(* most one watched transaction and one outcome, hashes and receipt ids    *)
(* reused at will, so that seed ids and ForwardTo targets collide with     *)
(* tracked ids.                                                            *)
(***************************************************************************)
CollidingIds == {"R1", "R2"}

ArbitraryTx(i, r) ==
    [hash |-> TxHashes[i], signer_id |-> "signer.test", receiver_id |-> "alice.test",
     receipt_id |-> r]

ArbitraryStatuses ==
    {[kind |-> "FinalValue", receipt_id |-> ""], [kind |-> "Failed", receipt_id |-> ""]}
      \cup {[kind |-> "ForwardTo", receipt_id |-> r] : r \in CollidingIds}

ArbitraryOutcome(r, st) ==
    [receipt |-> [receipt_id |-> r, receiver_id |-> "alice.test", actions |-> OneGood],
     status |-> st]

(* A transaction alone, an outcome alone, or a transaction with the outcome *)
(* of its own seed receipt.                                                 *)
ArbitraryContents ==
    {[txs |-> <<ArbitraryTx(i, r)>>, os |-> <<>>] : i \in DOMAIN TxHashes, r \in CollidingIds}
      \cup {[txs |-> <<>>, os |-> <<ArbitraryOutcome(r, st)>>] :
        r \in CollidingIds, st \in ArbitraryStatuses}
      \cup {[txs |-> <<ArbitraryTx(i, r)>>, os |-> <<ArbitraryOutcome(r, st)>>] :
        i \in DOMAIN TxHashes, r \in CollidingIds, st \in ArbitraryStatuses}

SendArbitrary ==
    /\ ~closed
    /\ pc \notin {"done", "panicked"}
    /\ sentCount < MaxBlocks
    /\ Len(queue) < Capacity
    /\ \E c \in ArbitraryContents :
         queue' = Append(queue, BuildBlock(Height(sentCount + 1), c.txs, c.os))
    /\ sentCount' = sentCount + 1
    /\ UNCHANGED <<chain, nRid, closed>>
    /\ UNCHANGED loopVars
    /\ UNCHANGED tokenVars

Close ==
    /\ ~closed
    /\ closed' = TRUE
    /\ UNCHANGED <<chain, nRid, sentCount, queue>>
    /\ UNCHANGED loopVars
    /\ UNCHANGED tokenVars

(***************************************************************************)
(* listen_blocks.                                                          *)
(***************************************************************************)
Emissions(out, h) ==
    [i \in DOMAIN out |-> [hash |-> out[i][2], height |-> h,
                           receipt_id |-> out[i][1].receipt.receipt_id]]

(* The body of the loop up to collect_vec(): seed and merge, filter, decode. *)
ProcessBlock_FilterBeforeSeed(m, map) ==
    LET f == filter_outcomes(m, map)
        seeded == HashMapExtend(f.map, collect_transactions(m, watching_list))
    IN [seeded |-> seeded, map |-> seeded, out |-> f.out,
        txs |-> FlatMapProcess(f.out, m)]

ProcessBlock_FilterOnCopy(m, map) ==
    LET seeded == HashMapExtend(map, collect_transactions(m, watching_list))
        f == filter_outcomes(m, seeded)
    IN [seeded |-> seeded, map |-> seeded, out |-> f.out,
        txs |-> FlatMapProcess(f.out, m)]

ProcessBlock(m, map) ==
    LET seeded == HashMapExtend(map, collect_transactions(m, watching_list))
        f == filter_outcomes(m, seeded)
    IN [seeded |-> seeded, map |-> f.map, out |-> f.out,
        txs |-> FlatMapProcess(f.out, m)]

(* mpsc::Receiver::recv on a non-empty buffer: the oldest message. *)
ChannelRecv_Newest(q) == [msg |-> q[Len(q)], rest |-> <<>>]

ChannelRecv(q) == [msg |-> Head(q), rest |-> Tail(q)]

(* The for loop over txs: the next record to insert. *)
PopRecord_Back(recs) == [rec |-> recs[Len(recs)], rest |-> SubSeq(recs, 1, Len(recs) - 1)]

PopRecord(recs) == [rec |-> Head(recs), rest |-> Tail(recs)]

(* History only: which kinds of key collision the received blocks brought. *)
SeedCollides(m, map) ==
    \E k \in DOMAIN m.shards : \E t \in DOMAIN m.shards[k].transactions :
        LET tx == m.shards[k].transactions[t]
        IN /\ tx.receiver_id \in watching_list
           /\ tx.receipt_id \in Keys(map)
           /\ HashMapGet(map, tx.receipt_id) # tx.hash

ForwardCollides(m, map) ==
    \E k \in DOMAIN m.shards : \E j \in DOMAIN m.shards[k].outcomes :
        LET o == m.shards[k].outcomes[j]
        IN /\ o.status.kind = "ForwardTo"
           /\ o.receipt.receipt_id \in Keys(map)
           /\ o.status.receipt_id \in Keys(map)
           /\ o.status.receipt_id # o.receipt.receipt_id
           /\ HashMapGet(map, o.status.receipt_id) # HashMapGet(map, o.receipt.receipt_id)

Collisions(m, map, seeded) ==
    (IF SeedCollides(m, map) THEN {"seed"} ELSE {})
      \cup (IF ForwardCollides(m, seeded) THEN {"forward"} ELSE {})

(* stream.recv() yields a block: seed, filter and decode it. *)
Recv ==
    /\ pc = "recv"
    /\ queue # <<>>
    /\ \E r \in {ChannelRecv(queue)} :
         \E p \in {ProcessBlock(r.msg, tx_receipt_ids)} :
           /\ queue' = r.rest
           /\ tx_receipt_ids' = p.map
           /\ txs' = p.txs
           /\ msg' = IF p.txs = <<>> THEN NoBlock ELSE r.msg
           /\ pc' = IF p.txs = <<>> THEN "recv" ELSE "insert"
           /\ received' = Append(received, r.msg.height)
           /\ emissions' = emissions \o Emissions(p.out, r.msg.height)
           /\ emitted' = emitted \o p.txs
           /\ mapAfterSeed' = p.seeded
           /\ collided' = collided \cup Collisions(r.msg, tx_receipt_ids, p.seeded)
           /\ steps' = FilterTrace([map |-> p.seeded, out |-> <<>>],
                                   FlatOutcomes(r.msg.shards))
    /\ UNCHANGED <<inflight, sink>>
    /\ UNCHANGED envVars
    /\ UNCHANGED tokenVars

(* stream.recv() yields None: the channel is closed and drained. *)
RecvNone_Eager ==
    /\ pc = "recv"
    /\ closed
    /\ pc' = "done"
    /\ UNCHANGED <<msg, tx_receipt_ids, txs, inflight, sink,
                   received, emissions, emitted, mapAfterSeed, collided, steps>>
    /\ UNCHANGED <<envVars, queue>>
    /\ UNCHANGED tokenVars

RecvNone ==
    /\ pc = "recv"
    /\ queue = <<>>
    /\ closed
    /\ pc' = "done"
    /\ UNCHANGED <<msg, tx_receipt_ids, txs, inflight, sink,
                   received, emissions, emitted, mapAfterSeed, collided, steps>>
    /\ UNCHANGED <<envVars, queue>>
    /\ UNCHANGED tokenVars

(* tx.insert(&pool) is issued and awaited. *)
InsertIssue ==
    /\ pc = "insert"
    /\ inflight' = Append(inflight, PopRecord(txs).rec)
    /\ txs' = PopRecord(txs).rest
    /\ pc' = "await"
    /\ UNCHANGED <<msg, tx_receipt_ids, sink, received, emissions, emitted, mapAfterSeed, collided, steps>>
    /\ UNCHANGED <<envVars, queue>>
    /\ UNCHANGED tokenVars

(* The Sink accepts the write; the loop goes on. *)
SinkOk ==
    /\ pc = "await"
    /\ inflight # <<>>
    /\ sink' = Append(sink, Head(inflight))
    /\ inflight' = Tail(inflight)
    /\ pc' = IF txs = <<>> THEN "recv" ELSE "insert"
    /\ msg' = IF txs = <<>> THEN NoBlock ELSE msg
    /\ UNCHANGED <<tx_receipt_ids, txs, received, emissions, emitted, mapAfterSeed, collided, steps>>
    /\ UNCHANGED <<envVars, queue>>
    /\ UNCHANGED tokenVars

(* The Sink rejects the write; expect() panics. *)
SinkErr_Continue ==
    /\ pc = "await"
    /\ inflight # <<>>
    /\ inflight' = Tail(inflight)
    /\ pc' = IF txs = <<>> THEN "recv" ELSE "insert"
    /\ msg' = IF txs = <<>> THEN NoBlock ELSE msg
    /\ UNCHANGED <<tx_receipt_ids, txs, sink, received, emissions, emitted, mapAfterSeed, collided, steps>>
    /\ UNCHANGED <<envVars, queue>>
    /\ UNCHANGED tokenVars

SinkErr ==
    /\ pc = "await"
    /\ inflight # <<>>
    /\ inflight' = Tail(inflight)
    /\ pc' = "panicked"
    /\ UNCHANGED <<msg, tx_receipt_ids, txs, sink, received, emissions, emitted, mapAfterSeed, collided, steps>>
    /\ UNCHANGED <<envVars, queue>>
    /\ UNCHANGED tokenVars

Next ==
    \/ Send
    \/ Close
    \/ Recv
    \/ RecvNone
    \/ InsertIssue
    \/ SinkOk
    \/ SinkErr

Spec == Init /\ [][Next]_vars

NextAny ==
    \/ SendArbitrary
    \/ Close
    \/ Recv
    \/ RecvNone
    \/ InsertIssue
    \/ SinkOk
    \/ SinkErr

AnySpec == Init /\ [][NextAny]_vars

NextLive ==
    \/ SendLive
    \/ Close
    \/ Recv
    \/ RecvNone
    \/ InsertIssue
    \/ SinkOk
    \/ SinkErr

NextTrack ==
    \/ SendTracked
    \/ Close
    \/ Recv
    \/ RecvNone
    \/ InsertIssue
    \/ SinkOk
    \/ SinkErr

TrackSpec == Init /\ [][NextTrack]_vars

(* The task is scheduled whenever it can run, and the Sink answers every write. *)
FairSpec ==
    /\ Init /\ [][NextLive]_vars
    /\ WF_vars(Recv)
    /\ WF_vars(RecvNone)
    /\ WF_vars(InsertIssue)
    /\ WF_vars(SinkOk \/ SinkErr)

TypeOK ==
    /\ pc \in {"recv", "insert", "await", "done", "panicked"}
    /\ Len(queue) <= Capacity

(***************************************************************************)
(* Calls to the token contract.  Every call is one action: the method runs *)
(* on the current state with the caller (predecessor), the attached        *)
(* deposit and the arguments drawn from small sets; its writes are kept    *)
(* when it returns and dropped when it panics.  call records the call, its *)
(* outcome and the state before it, until the outcome has been taken note  *)
(* of (Acknowledge); then the next call is made.                           *)
(***************************************************************************)
Amounts == 0..MaxAmount

InitSupplies == 0..MaxSupply

FundAmounts == {None, Some(1)}

AccountLists == UNION {[1..n -> TokenAccounts] : n \in 0..MaxBatch}

(* The lists a call that fails its assertions is tried with. *)
ProbeLists == {<<>>, <<"alice.near">>}

ListsFor(st, predecessor, attached) ==
    IF predecessor = st.owner /\ attached = 1 THEN AccountLists ELSE ProbeLists

Bounded(st) ==
    /\ st.total_supply <= MaxSupply
    /\ \A a \in TokenAccounts : st.balances[a] <= MaxSupply

TokenInit ==
    /\ InitIndexer
    /\ \E total_supply \in InitSupplies, fund_amount \in FundAmounts :
         /\ contract = new("bob.near", total_supply, fund_amount)
         /\ call = [NoCall EXCEPT !.method = "new", !.amount = total_supply,
                                  !.fund_amount = fund_amount]

Execute(method, predecessor, attached, account_ids, amount, r) ==
    /\ r.err = OK => Bounded(r.st)
    /\ contract' = IF r.err = OK THEN r.st ELSE contract
    /\ call' = [method |-> method, predecessor |-> predecessor, attached |-> attached,
                account_ids |-> account_ids, amount |-> amount, fund_amount |-> None,
                err |-> r.err, log |-> r.log, pre |-> contract]
    /\ UNCHANGED indexerVars

CallFtTransfer ==
    /\ call = NoCall
    /\ \E p \in TokenAccounts, d \in AttachedDeposits, a \in TokenAccounts, n \in Amounts :
           \E r \in {ft_transfer(contract, p, d, a, n)} :
               Execute("ft_transfer", p, d, <<a>>, n, r)

CallAddDeposit ==
    /\ call = NoCall
    /\ \E p \in TokenAccounts, d \in AttachedDeposits, n \in Amounts :
           \E r \in {add_deposit(contract, p, d, n)} :
               Execute("add_deposit", p, d, <<>>, n, r)

CallRegisterHolder ==
    /\ call = NoCall
    /\ \E p \in TokenAccounts, d \in AttachedDeposits, a \in TokenAccounts :
           \E r \in {register_holder(contract, p, d, a)} :
               Execute("register_holder", p, d, <<a>>, 0, r)

CallRemoveHolder ==
    /\ call = NoCall
    /\ \E p \in TokenAccounts, d \in AttachedDeposits, a \in TokenAccounts :
           \E r \in {remove_holder(contract, p, d, a)} :
               Execute("remove_holder", p, d, <<a>>, 0, r)

CallClaimCredits ==
    /\ call = NoCall
    /\ \E p \in TokenAccounts, d \in AttachedDeposits :
           \E r \in {claim_credits(contract, p, d)} :
               Execute("claim_credits", p, d, <<>>, 0, r)

CallFundProgramParticipant ==
    /\ call = NoCall
    /\ \E p \in TokenAccounts, d \in AttachedDeposits, a \in TokenAccounts :
           \E r \in {fund_program_participant(contract, p, d, a)} :
               Execute("fund_program_participant", p, d, <<a>>, contract.fund_amount, r)

CallFundProgramParticipants ==
    /\ call = NoCall
    /\ \E p \in TokenAccounts, d \in AttachedDeposits :
           \E as \in ListsFor(contract, p, d) :
               \E r \in {fund_program_participants(contract, p, d, as)} :
                   Execute("fund_program_participants", p, d, as, contract.fund_amount, r)

CallFundProgramParticipantWithAmount ==
    /\ call = NoCall
    /\ \E p \in TokenAccounts, d \in AttachedDeposits, a \in TokenAccounts, n \in Amounts :
           \E r \in {fund_program_participant_with_amount(contract, p, d, a, n)} :
               Execute("fund_program_participant_with_amount", p, d, <<a>>, n, r)

CallFundProgramParticipantsWithAmount ==
    /\ call = NoCall
    /\ \E p \in TokenAccounts, d \in AttachedDeposits, n \in Amounts :
           \E as \in ListsFor(contract, p, d) :
               \E r \in {fund_program_participants_with_amount(contract, p, d, as, n)} :
                   Execute("fund_program_participants_with_amount", p, d, as, n, r)

Acknowledge ==
    /\ call # NoCall
    /\ call' = NoCall
    /\ UNCHANGED contract
    /\ UNCHANGED indexerVars

TokenNext ==
    \/ CallFtTransfer
    \/ CallAddDeposit
    \/ CallRegisterHolder
    \/ CallRemoveHolder
    \/ CallClaimCredits
    \/ CallFundProgramParticipant
    \/ CallFundProgramParticipants
    \/ CallFundProgramParticipantWithAmount
    \/ CallFundProgramParticipantsWithAmount
    \/ Acknowledge

TokenSpec == TokenInit /\ [][TokenNext]_vars

TokenTypeOK ==
    /\ contract.owner \in TokenAccounts
    /\ contract.allowlist \subseteq TokenAccounts
    /\ \A a \in TokenAccounts : contract.balances[a] \in 0..MaxSupply
    /\ contract.total_supply \in 0..MaxSupply

(***************************************************************************)
(* What the chain says about a transaction, for stating the properties.    *)
(***************************************************************************)
Txs == DOMAIN TxHashes

Watched(i) == chain[i].state # "none" /\ chain[i].receiver \in watching_list

Processed(h) == \E k \in DOMAIN received : received[k] = h

LastReceived == IF received = <<>> THEN 0 ELSE received[Len(received)]

FullyProcessed(h) ==
    /\ Processed(h)
    /\ LastReceived > h \/ pc \in {"recv", "done"}

ValidArgs == {ArgsP1, ArgsP2}

IsValidCall(a) == a.kind = "FunctionCall" /\ a.args \in ValidArgs

ValidCount(as) == Cardinality({k \in DOMAIN as : IsValidCall(as[k])})

ArgsValue(a) == IF a = ArgsP1 THEN [account_id |-> "p1"] ELSE [account_id |-> "p2"]

RECURSIVE ExpectedFrom(_, _, _, _)
ExpectedFrom(as, hash, receiver, ts) ==
    IF as = <<>> THEN <<>>
    ELSE (IF IsValidCall(as[1])
          THEN <<[hash |-> hash, receiver |-> receiver, method_name |-> as[1].method_name,
                  args |-> ArgsValue(as[1].args), timestamp |-> ts]>>
          ELSE <<>>) \o ExpectedFrom(Tail(as), hash, receiver, ts)

ExpectedRecords(i) ==
    ExpectedFrom(chain[i].actions, TxHashes[i], chain[i].curRecv, Timestamp(chain[i].term))

RecordsOf(s, hash) ==
    LET Mine(r) == r.hash = hash
    IN SelectSeq(s, Mine)

EmissionsOf(hash) ==
    LET Mine(e) == e.hash = hash
    IN SelectSeq(emissions, Mine)

Issued == sink \o inflight

Produced == sink \o inflight \o txs

TxIndex(hash) == CHOOSE i \in Txs : TxHashes[i] = hash

IsPrefix(s, t) == Len(s) <= Len(t) /\ \A k \in DOMAIN s : s[k] = t[k]

(***************************************************************************)
(* C1: for every watched transaction whose chain ended in FinalValue, once *)
(* the block with that outcome is fully processed and no insert failed,    *)
(* the Sink holds as many records with its hash as the terminal receipt    *)
(* has FunctionCall actions with valid payloads.                           *)
(***************************************************************************)
C1_NoLossOnSuccess ==
    \A i \in Txs :
        (Watched(i) /\ chain[i].state = "final" /\ FullyProcessed(chain[i].term))
            => Len(RecordsOf(sink, TxHashes[i])) = ValidCount(chain[i].actions)

C1_Witness ==
    \E i \in Txs :
        /\ Watched(i) /\ chain[i].state = "final" /\ FullyProcessed(chain[i].term)
        /\ chain[i].hops >= 1
        /\ chain[i].actions = Mixed
        /\ Len(RecordsOf(sink, TxHashes[i])) = 2

(***************************************************************************)
(* C2: a transaction whose chain ended in Failed never has a record with   *)
(* its hash in the Sink (nor produced, nor in flight).                     *)
(***************************************************************************)
C2_NoRecordOnFailure ==
    \A i \in Txs :
        chain[i].state = "failed"
            => /\ RecordsOf(sink, TxHashes[i]) = <<>>
               /\ RecordsOf(emitted, TxHashes[i]) = <<>>
               /\ EmissionsOf(TxHashes[i]) = <<>>

C2_Witness ==
    \E i \in Txs :
        /\ Watched(i) /\ chain[i].state = "failed" /\ FullyProcessed(chain[i].term)
        /\ ValidCount(chain[i].actions) > 0
        /\ sink # <<>>

(***************************************************************************)
(* C3: a watched transaction whose chain goes through ForwardTo outcomes   *)
(* is emitted at most once, and exactly once when the block holding its    *)
(* FinalValue outcome has been processed; the emission and every record    *)
(* with that hash belong to that block, and a record with that hash is     *)
(* in flight to the Sink only while that block is the one being processed. *)
(***************************************************************************)
C3_ForwardChainContinuity ==
    \A i \in Txs :
        (Watched(i) /\ chain[i].hops >= 1) =>
            /\ Len(EmissionsOf(TxHashes[i])) <= 1
            /\ \A k \in DOMAIN emissions :
                  emissions[k].hash = TxHashes[i]
                      => chain[i].state = "final" /\ emissions[k].height = chain[i].term
            /\ (chain[i].state = "final" /\ Processed(chain[i].term))
                  => Len(EmissionsOf(TxHashes[i])) = 1
            /\ \A k \in DOMAIN Produced :
                  Produced[k].hash = TxHashes[i]
                      => /\ chain[i].state = "final"
                         /\ Produced[k].timestamp = Timestamp(chain[i].term)
            /\ \A k \in DOMAIN inflight :
                  inflight[k].hash = TxHashes[i] => msg.height = chain[i].term

C3_Witness ==
    \E i \in Txs :
        /\ Watched(i) /\ chain[i].hops >= 2 /\ chain[i].state = "final"
        /\ chain[i].term = chain[i].born + 2
        /\ Len(EmissionsOf(TxHashes[i])) = 1
        /\ RecordsOf(sink, TxHashes[i]) # <<>>

(***************************************************************************)
(* C4: a failed insert stops the loop: after it no record reaches the Sink *)
(* and no block is taken from the stream; so the records the Sink accepted *)
(* are always a gap-free prefix of the records emitted.                    *)
(***************************************************************************)
C4_SinkFailureStops ==
    /\ [](IsPrefix(sink, emitted))
    /\ [][pc = "panicked" => /\ pc' = "panicked"
                             /\ sink' = sink
                             /\ inflight' = inflight
                             /\ queue' = queue
                             /\ received' = received]_vars

C4_Witness ==
    /\ pc = "panicked"
    /\ sink # <<>>
    /\ txs # <<>>
    /\ queue # <<>>
    /\ Len(sink) + Len(txs) + 1 = Len(emitted)

TermKeyLess(i, j) ==
    \/ chain[i].term < chain[j].term
    \/ chain[i].term = chain[j].term /\ chain[i].pos < chain[j].pos

(***************************************************************************)
(* C5: inserts are issued one at a time and in emission order: at most one *)
(* is in flight and the loop waits for it; records of an earlier block     *)
(* come before those of a later one, within a block they follow the        *)
(* shard-then-position order of their terminal outcomes, within one        *)
(* outcome the order of its actions; and a block is only received when     *)
(* every insert of the block before it has completed.                      *)
(***************************************************************************)
C5_InsertOrder ==
    /\ Len(inflight) <= 1
    /\ inflight # <<>> => pc = "await"
    /\ pc = "recv" => inflight = <<>> /\ txs = <<>>
    /\ \A k \in DOMAIN inflight : inflight[k].timestamp = Timestamp(LastReceived)
    /\ \A k \in DOMAIN txs : txs[k].timestamp = Timestamp(LastReceived)
    /\ IsPrefix(Issued, emitted)
    /\ \A a, b \in DOMAIN emitted :
          (a < b /\ emitted[a].hash # emitted[b].hash)
              => TermKeyLess(TxIndex(emitted[a].hash), TxIndex(emitted[b].hash))
    /\ \A i \in Txs :
          (Watched(i) /\ chain[i].state = "final" /\ Processed(chain[i].term))
              => RecordsOf(emitted, TxHashes[i]) = ExpectedRecords(i)

C5_Witness ==
    /\ pc = "await"
    /\ Len(sink) >= 2
    /\ sink[1].hash # sink[2].hash
    /\ sink[1].timestamp = sink[2].timestamp
    /\ sink[1].receiver # sink[2].receiver
    /\ inflight[1].hash = sink[2].hash
    /\ inflight[1].method_name # sink[2].method_name

UniqueKeys(m) == \A e1, e2 \in m : e1[1] = e2[1] => e1 = e2

(***************************************************************************)
(* C6: between the steps of processing a block (after seeding and merge,   *)
(* after the Outcome Filter) no receipt id is the key of two Correlation   *)
(* Map entries, whatever the stream, collisions of seed ids and ForwardTo  *)
(* targets with tracked ids included.                                      *)
(***************************************************************************)
C6_KeyUniqueness == UniqueKeys(mapAfterSeed) /\ UniqueKeys(tx_receipt_ids)

C6_Witness ==
    /\ collided = {"seed", "forward"}
    /\ tx_receipt_ids # {}
    /\ pc = "recv"

GoodOfBadThenGood(i) ==
    [hash |-> TxHashes[i], receiver |-> chain[i].curRecv, method_name |-> "edit_project",
     args |-> [account_id |-> "p2"], timestamp |-> Timestamp(chain[i].term)]

HasMalformed(as) ==
    \E k \in DOMAIN as : as[k].kind = "FunctionCall" /\ as[k].args \notin ValidArgs

FinalProcessed(i) == Watched(i) /\ chain[i].state = "final" /\ Processed(chain[i].term)

(***************************************************************************)
(* C7: a finalized receipt with one malformed and one well-formed          *)
(* FunctionCall yields exactly one record, for the well-formed action; a   *)
(* malformed payload never stops the loop (only a failed insert does), and *)
(* the outcomes after it in the block and in later blocks are still        *)
(* decoded and written.                                                    *)
(***************************************************************************)
C7_DecoderResilience ==
    /\ \A i \in Txs :
          (FinalProcessed(i) /\ chain[i].actions = BadThenGood)
              => RecordsOf(emitted, TxHashes[i]) = <<GoodOfBadThenGood(i)>>
    /\ pc = "panicked" => Len(emitted) = Len(sink) + Len(txs) + 1
    /\ \A i, j \in Txs :
          ( /\ FinalProcessed(i) /\ HasMalformed(chain[i].actions)
            /\ Watched(j) /\ chain[j].state = "final" /\ TermKeyLess(i, j)
            /\ FullyProcessed(chain[j].term) )
              => RecordsOf(sink, TxHashes[j]) = ExpectedRecords(j)

C7_Witness ==
    \E i, j \in Txs :
        /\ FinalProcessed(i) /\ chain[i].actions = BadThenGood
        /\ Watched(j) /\ chain[j].state = "final"
        /\ chain[j].term = chain[i].term /\ chain[i].pos < chain[j].pos
        /\ FullyProcessed(chain[j].term)
        /\ sink = <<GoodOfBadThenGood(i)>> \o ExpectedRecords(j)
        /\ Len(sink) = 3

Scenario ==
    /\ chain[1].state # "none" /\ chain[1].receiver = "alice.test"
    /\ chain[1].born = 100 /\ chain[1].seed = "R1"
    /\ chain[1].hops = 1 /\ chain[1].cur = "R2" /\ chain[1].ready = 101
    /\ chain[1].curRecv = "alice.test" /\ chain[1].actions = OneGood
    /\ ~Watched(2) \/ chain[2].born > 101

ScenarioRecord ==
    [hash |-> "T1", receiver |-> "alice.test", method_name |-> "add_project",
     args |-> [account_id |-> "p1"], timestamp |-> Timestamp(101)]

(***************************************************************************)
(* C8: a tracked entry whose receipt gets a FinalValue or Failed outcome   *)
(* is removed and nothing takes its place.  Scenario: T1 to alice.test     *)
(* with seed R1 and R1 -> ForwardTo(R2) in block 100, the terminal outcome *)
(* of R2 in block 101: the map is {R2: T1} after block 100 and empty after *)
(* block 101, with exactly one record sent on FinalValue and none on       *)
(* Failed.                                                                 *)
(***************************************************************************)
C8_TerminalRemoves ==
    /\ \A i \in Txs :
          (Watched(i) /\ chain[i].state \in {"final", "failed"} /\ Processed(chain[i].term))
              => \A e \in tx_receipt_ids : e[1] # chain[i].cur /\ e[2] # TxHashes[i]
    /\ (Scenario /\ LastReceived = 100) => tx_receipt_ids = {<<"R2", "T1">>}
    /\ (Scenario /\ LastReceived = 101 /\ chain[1].term = 101) =>
          /\ tx_receipt_ids = {}
          /\ chain[1].state = "final" =>
                /\ emitted = <<ScenarioRecord>>
                /\ pc \in {"recv", "done"} => sink = <<ScenarioRecord>>
          /\ chain[1].state = "failed" => emitted = <<>> /\ Issued = <<>>

C8_Witness ==
    /\ Scenario /\ LastReceived = 101 /\ chain[1].term = 101
    /\ chain[1].state = "final"
    /\ pc = "recv"
    /\ sink = <<ScenarioRecord>>
    /\ tx_receipt_ids = {}

SentHeights == [k \in 1..sentCount |-> Height(k)]

QueueHeights == [k \in DOMAIN queue |-> queue[k].height]

(***************************************************************************)
(* C9: the bounded queue never holds more than its bound, and the blocks   *)
(* received followed by the blocks still queued are exactly the blocks     *)
(* sent, in the order sent: none dropped, none repeated, none reordered.   *)
(***************************************************************************)
C9_Backpressure ==
    /\ Len(queue) <= Capacity
    /\ received \o QueueHeights = SentHeights

C9_Witness ==
    /\ Len(queue) = Capacity
    /\ Len(received) >= 1
    /\ pc = "await"

(***************************************************************************)
(* C10: once the Block Source is closed, and unless an insert fails, the   *)
(* loop ends normally; it ends only when every block sent has been         *)
(* processed and every record written, and afterwards no insert is issued. *)
(***************************************************************************)
C10_GracefulEnd ==
    /\ ([](pc # "panicked")) => (closed ~> pc = "done")
    /\ [](pc = "done" => /\ closed
                         /\ queue = <<>> /\ txs = <<>> /\ inflight = <<>>
                         /\ Len(received) = sentCount
                         /\ sink = emitted)
    /\ [][pc = "done" => pc' = "done" /\ sink' = sink /\ inflight' = inflight]_vars

C10_Witness ==
    /\ pc = "done"
    /\ Len(received) >= 2
    /\ Len(sink) >= 2

(***************************************************************************)
(* The token contract: what the last call did, for stating the properties. *)
(***************************************************************************)
TransferMethods ==
    {"ft_transfer", "claim_credits", "fund_program_participant",
     "fund_program_participants", "fund_program_participant_with_amount",
     "fund_program_participants_with_amount"}

FundMethods == TransferMethods \ {"ft_transfer", "claim_credits"}

HookErrors == {"ERR_SENDER_NOT_REGISTERED", "ERR_RECEIVER_NOT_REGISTERED"}

Called(method) == call.method = method

Succeeded == call.method \notin {"none", "new"} /\ call.err = OK

Failed == call.method \notin {"none", "new"} /\ call.err # OK

ByOwnerWithYocto == call.predecessor = call.pre.owner /\ call.attached = 1

LastTransfer == call.log[Len(call.log)]

SumBalances(st) ==
    st.balances["bob.near"] + st.balances["alice.near"] + st.balances["carol.near"]

Gated(e) ==
    /\ e.err = OK => e.sender_listed /\ e.receiver_listed
    /\ ~e.sender_listed => e.err = "ERR_SENDER_NOT_REGISTERED"
    /\ e.sender_listed /\ ~e.receiver_listed => e.err = "ERR_RECEIVER_NOT_REGISTERED"
    /\ e.err \in HookErrors => e.after = e.before

(* The balances move only through the logged transfers, one after the other. *)
ThroughTransfers ==
    /\ call.log # <<>> =>
         /\ call.log[1].before = call.pre.balances
         /\ \A i \in 1..(Len(call.log) - 1) :
              /\ call.log[i].err = OK
              /\ call.log[i + 1].before = call.log[i].after
         /\ LastTransfer.err = call.err
         /\ Succeeded => contract.balances = LastTransfer.after
    /\ call.log = <<>> => contract.balances = call.pre.balances

MovedExactly(e) ==
    /\ e.after[e.sender] = e.before[e.sender] - e.amount
    /\ e.after[e.receiver] = e.before[e.receiver] + e.amount
    /\ \A a \in TokenAccounts \ {e.sender, e.receiver} : e.after[a] = e.before[a]
    /\ e.supply_after = e.supply_before

(* C12: new(owner, total_supply, _) credits the whole supply to the owner; *)
(* after any sequence of calls the balances still sum to ft_total_supply,  *)
(* no transfer, claim_credits or fund_* call changes ft_total_supply, and  *)
(* every successful transfer of amount a takes exactly a from the sender   *)
(* and gives exactly a to the receiver.                                    *)
C12_SupplyConserved ==
    /\ Called("new") =>
         /\ ft_total_supply(contract) = call.amount
         /\ ft_balance_of(contract, contract.owner) = call.amount
    /\ SumBalances(contract) = ft_total_supply(contract)
    /\ call.method \in TransferMethods =>
         /\ ft_total_supply(contract) = ft_total_supply(call.pre)
         /\ \A i \in DOMAIN call.log :
              call.log[i].err = OK => MovedExactly(call.log[i])

OwnerMethods == FundMethods \cup {"add_deposit", "register_holder", "remove_holder"}

(* C13: add_deposit, register_holder, remove_holder and the four fund_*    *)
(* methods take effect only when called by the owner: a call by anyone     *)
(* else fails and leaves the allowlist, the balances, fund_amount and the  *)
(* total supply as they were; all of them but remove_holder also fail,     *)
(* leaving the state as it was, unless exactly one yocto is attached.      *)
C13_OwnerOnly ==
    call.method \in OwnerMethods =>
        /\ call.predecessor # call.pre.owner => Failed /\ contract = call.pre
        /\ call.attached # 1 /\ ~Called("remove_holder") => Failed /\ contract = call.pre
        /\ call.predecessor # call.pre.owner
           /\ call.attached = (IF Called("remove_holder") THEN 0 ELSE 1)
             => call.err = "Owner only"
        /\ contract # call.pre => Succeeded /\ call.predecessor = call.pre.owner
        /\ Called("remove_holder") /\ call.predecessor = call.pre.owner /\ call.attached = 0
             => Succeeded

C13_Witness ==
    /\ Called("fund_program_participant_with_amount")
    /\ call.predecessor = "alice.near"
    /\ call.predecessor \in call.pre.allowlist
    /\ call.attached = 1
    /\ call.amount > 0
    /\ call.pre.balances[call.pre.owner] >= call.amount
    /\ call.pre.owner \in call.pre.allowlist
    /\ Failed

(* C14: claim_credits called with one yocto by an allowlisted account with *)
(* balance b (the owner being on the allowlist, so that the transfer is    *)
(* admitted) moves the whole balance to the owner: the caller is left with *)
(* 0 and the owner has b more, or the same as before when the caller is    *)
(* the owner; the total supply and every other balance are unchanged; for  *)
(* every b, 0 included.                                                    *)
C14_ClaimCredits ==
    ( /\ Called("claim_credits")
      /\ call.attached = 1
      /\ call.predecessor \in call.pre.allowlist
      /\ call.pre.owner \in call.pre.allowlist )
    => LET claimer == call.predecessor
           owner == call.pre.owner
           b == ft_balance_of(call.pre, claimer)
       IN  /\ Succeeded
           /\ claimer # owner =>
                /\ ft_balance_of(contract, claimer) = 0
                /\ ft_balance_of(contract, owner) = ft_balance_of(call.pre, owner) + b
           /\ claimer = owner =>
                ft_balance_of(contract, owner) = ft_balance_of(call.pre, owner)
           /\ \A a \in TokenAccounts \ {claimer, owner} :
                ft_balance_of(contract, a) = ft_balance_of(call.pre, a)
           /\ ft_total_supply(contract) = ft_total_supply(call.pre)
           /\ contract.allowlist = call.pre.allowlist

Count(account_ids, a) == Cardinality({i \in DOMAIN account_ids : account_ids[i] = a})

Listed(account_ids) == {account_ids[i] : i \in DOMAIN account_ids}

FundedAmount ==
    IF call.method \in {"fund_program_participant", "fund_program_participants"}
    THEN call.pre.fund_amount
    ELSE call.amount

(* C15: a fund_* method called by the owner with one yocto, the owner      *)
(* holding enough for every listed element (and being on the allowlist,    *)
(* so that the transfers are admitted), puts every listed account on the   *)
(* allowlist and moves the amount from the owner to the account once per   *)
(* list element (an account listed k times receives k times the amount);   *)
(* the amount is fund_amount, or the supplied amount for the *_with_amount *)
(* variants; the total supply is unchanged.                                *)
C15_FundParticipants ==
    ( /\ call.method \in FundMethods
      /\ ByOwnerWithYocto
      /\ call.pre.owner \in call.pre.allowlist
      /\ ft_balance_of(call.pre, call.pre.owner) >= FundedAmount * Len(call.account_ids) )
    => LET owner == call.pre.owner
           ids == call.account_ids
       IN  /\ Succeeded
           /\ contract.allowlist = call.pre.allowlist \cup Listed(ids)
           /\ \A a \in TokenAccounts \ {owner} :
                ft_balance_of(contract, a)
                  = ft_balance_of(call.pre, a) + Count(ids, a) * FundedAmount
           /\ ft_balance_of(contract, owner)
                = ft_balance_of(call.pre, owner)
                    - (Len(ids) - Count(ids, owner)) * FundedAmount
           /\ ft_total_supply(contract) = ft_total_supply(call.pre)
           /\ contract.fund_amount = call.pre.fund_amount

(* C16: add_deposit(d) called by the owner with one yocto increases        *)
(* ft_total_supply and the owner's balance by exactly d and changes no     *)
(* other balance, nor the allowlist.                                       *)
C16_AddDeposit ==
    Called("add_deposit") /\ ByOwnerWithYocto =>
        /\ Succeeded
        /\ ft_total_supply(contract) = ft_total_supply(call.pre) + call.amount
        /\ ft_balance_of(contract, call.pre.owner)
             = ft_balance_of(call.pre, call.pre.owner) + call.amount
        /\ \A a \in TokenAccounts \ {call.pre.owner} :
             ft_balance_of(contract, a) = ft_balance_of(call.pre, a)
        /\ contract.allowlist = call.pre.allowlist
        /\ contract.fund_amount = call.pre.fund_amount
        /\ contract.owner = call.pre.owner

C16_Witness ==
    /\ Called("add_deposit")
    /\ ByOwnerWithYocto
    /\ call.amount > 0
    /\ ft_total_supply(call.pre) > 0
    /\ ft_total_supply(contract) > ft_total_supply(call.pre)
    /\ \E a \in TokenAccounts \ {call.pre.owner} : ft_balance_of(call.pre, a) > 0

RECURSIVE Pow10(_)
Pow10(n) == IF n = 0 THEN 1 ELSE 10 * Pow10(n - 1)

(* C17: ONE_NHZN is one token, that is 10^decimals = 10^4 base units, so   *)
(* the fund_amount that new() sets when none is given, 50_000 * ONE_NHZN,  *)
(* is 50,000 whole tokens.                                                 *)
C17_OneToken ==
    /\ ONE_NHZN = Pow10(decimals)
    /\ Called("new") /\ ~call.fund_amount.some
         => contract.fund_amount = 50000 * Pow10(decimals)

(***************************************************************************)
(* The Outcome Filter, step by step, on the last block received.           *)
(***************************************************************************)
Untracked(k) == steps[k].outcome.receipt.receipt_id \notin Keys(steps[k].before.map)

Tracked(k) == ~Untracked(k)

StatusOf(k) == steps[k].outcome.status

(* What the block left behind is what the last step left behind. *)
StepsAccount ==
    /\ steps # <<>> =>
         /\ steps[1].before = [map |-> mapAfterSeed, out |-> <<>>]
         /\ \A k \in 1..(Len(steps) - 1) : steps[k + 1].before = steps[k].after
         /\ tx_receipt_ids = steps[Len(steps)].after.map
    /\ steps = <<>> /\ received # <<>> => tx_receipt_ids = mapAfterSeed

(* C18: an outcome whose receipt id is not a key of the Correlation Map    *)
(* when the Outcome Filter meets it leaves the map as it was and emits     *)
(* nothing, whatever its status and its receiver; a ForwardTo of an        *)
(* untracked receipt does not make its new receipt id a key.               *)
C18_UntrackedIgnored ==
    /\ StepsAccount
    /\ \A k \in DOMAIN steps :
         Untracked(k) =>
             /\ steps[k].after.map = steps[k].before.map
             /\ steps[k].after.out = steps[k].before.out
             /\ StatusOf(k).kind = "ForwardTo"
                  => StatusOf(k).receipt_id \notin Keys(steps[k].after.map)
    /\ (\A k \in DOMAIN steps : Untracked(k)) /\ received # <<>> =>
         /\ tx_receipt_ids = mapAfterSeed
         /\ \A e \in DOMAIN emissions : emissions[e].height # LastReceived

C18_Witness ==
    \E k \in DOMAIN steps :
        /\ Untracked(k)
        /\ StatusOf(k).kind = "ForwardTo"
        /\ steps[k].before.map # {}
        /\ tx_receipt_ids = steps[k].before.map
        /\ \E j \in DOMAIN received : received[j] < LastReceived

Others(m, ids) == {p \in m : p[1] \notin ids}

(* C19: a ForwardTo(new_id) outcome of a tracked receipt id r mapped to    *)
(* hash t leaves r no key, new_id mapped to t, every other entry as it     *)
(* was, and emits nothing; so, however many ForwardTo outcomes a chain     *)
(* goes through, the hash emitted with its FinalValue outcome is the hash  *)
(* of the transaction that seeded the chain.                               *)
C19_ForwardReinserts ==
    /\ \A k \in DOMAIN steps :
         Tracked(k) /\ StatusOf(k).kind = "ForwardTo" =>
             LET r == steps[k].outcome.receipt.receipt_id
                 t == HashMapGet(steps[k].before.map, r)
                 new_id == StatusOf(k).receipt_id
             IN  /\ r \notin Keys(steps[k].after.map)
                 /\ new_id \in Keys(steps[k].after.map)
                 /\ HashMapGet(steps[k].after.map, new_id) = t
                 /\ Others(steps[k].after.map, {r, new_id})
                      = Others(steps[k].before.map, {r, new_id})
                 /\ steps[k].after.out = steps[k].before.out
                 /\ r \notin Keys(tx_receipt_ids)
                 /\ <<new_id, t>> \in tx_receipt_ids
    /\ \A e \in DOMAIN emissions :
         LET i == TxIndex(emissions[e].hash)
         IN  /\ Watched(i)
             /\ chain[i].state = "final"
             /\ emissions[e].receipt_id = chain[i].cur
             /\ chain[i].hops = 0 <=> emissions[e].receipt_id = chain[i].seed
    /\ \A i \in Txs :
         Watched(i) /\ chain[i].state = "pending" /\ Processed(chain[i].ready - 1)
           /\ chain[i].hops >= 1
             => <<chain[i].cur, TxHashes[i]>> \in tx_receipt_ids

C19_Witness ==
    \E k \in DOMAIN steps :
        /\ Tracked(k)
        /\ StatusOf(k).kind = "ForwardTo"
        /\ Cardinality(steps[k].before.map) >= 2
        /\ <<StatusOf(k).receipt_id, HashMapGet(steps[k].before.map,
                                               steps[k].outcome.receipt.receipt_id)>>
             \in tx_receipt_ids

Unwatched(i) == chain[i].state # "none" /\ chain[i].receiver \notin watching_list

Hashes(m) == {p[2] : p \in m}

BornInLast(i) == chain[i].state # "none" /\ received # <<>> /\ chain[i].born = LastReceived

(* C20: on every block the Seeder's pairs are in the Correlation Map       *)
(* before the Outcome Filter runs on it, and there is a pair (seed receipt *)
(* id, hash) for exactly the block's transactions to watched receivers: an *)
(* outcome of a seed receipt in its transaction's own block is tracked,    *)
(* and a transaction to an unwatched receiver never makes a map entry nor  *)
(* a Call Record.                                                          *)
C20_SeedBeforeFilter ==
    /\ \A i \in Txs :
         BornInLast(i) =>
             /\ Watched(i) => <<chain[i].seed, TxHashes[i]>> \in mapAfterSeed
             /\ Unwatched(i) => chain[i].seed \notin Keys(mapAfterSeed)
             /\ \A k \in DOMAIN steps :
                  steps[k].outcome.receipt.receipt_id = chain[i].seed =>
                      /\ steps[1].before.map = mapAfterSeed
                      /\ Watched(i) <=> Tracked(k)
                      /\ Watched(i) => HashMapGet(steps[k].before.map, chain[i].seed) = TxHashes[i]
    /\ \A i \in Txs :
         Watched(i) /\ chain[i].state = "final" /\ chain[i].term = chain[i].born
           /\ Processed(chain[i].born)
             => /\ Len(EmissionsOf(TxHashes[i])) = 1
                /\ EmissionsOf(TxHashes[i])[1].height = chain[i].born
                /\ EmissionsOf(TxHashes[i])[1].receipt_id = chain[i].seed
    /\ \A i \in Txs :
         Unwatched(i) =>
             /\ TxHashes[i] \notin Hashes(tx_receipt_ids) \cup Hashes(mapAfterSeed)
             /\ EmissionsOf(TxHashes[i]) = <<>>
             /\ RecordsOf(emitted, TxHashes[i]) = <<>>
             /\ RecordsOf(Produced, TxHashes[i]) = <<>>
    /\ \A h \in Hashes(mapAfterSeed) \cup Hashes(tx_receipt_ids) :
         \E i \in Txs : TxHashes[i] = h /\ Watched(i) /\ Processed(chain[i].born)

C20_Witness ==
    /\ \E i \in Txs :
         /\ Watched(i) /\ BornInLast(i)
         /\ chain[i].state = "final" /\ chain[i].term = chain[i].born
         /\ \E k \in DOMAIN steps :
              steps[k].outcome.receipt.receipt_id = chain[i].seed /\ Tracked(k)
         /\ Len(EmissionsOf(TxHashes[i])) = 1
    /\ \E i \in Txs :
         /\ Unwatched(i) /\ Processed(chain[i].born)
         /\ ValidCount(chain[i].actions) >= 1
         /\ chain[i].state = "final" /\ Processed(chain[i].term)

(***************************************************************************)
(* Receipt ids and the blocks processed so far.  On the chain above every  *)
(* receipt id issued is executed once: it has had its outcome unless it is *)
(* the current receipt of a pending transaction, and that outcome is in a  *)
(* block processed unless its block still waits in the channel.            *)
(***************************************************************************)
OutcomeIds(b) ==
    {FlatOutcomes(b.shards)[k].receipt.receipt_id : k \in DOMAIN FlatOutcomes(b.shards)}

QueuedIds == UNION {OutcomeIds(queue[k]) : k \in DOMAIN queue}

IssuedIds == {ReceiptIds[k] : k \in 1..nRid}

UnexecutedIds == {chain[i].cur : i \in {j \in Txs : chain[j].state = "pending"}}

ResolvedIds == (IssuedIds \ UnexecutedIds) \ QueuedIds

TrackedTx(i) == Watched(i) /\ Processed(chain[i].born)

TerminalSeen(i) == chain[i].state \in {"final", "failed"} /\ Processed(chain[i].term)

(* C21: between blocks every entry of the Correlation Map is for a receipt *)
(* still to be resolved: no block processed so far holds an outcome for    *)
(* its receipt id, and its hash is the hash of a tracked transaction whose *)
(* terminal outcome has not been processed; and once every tracked         *)
(* transaction has had its terminal outcome processed, the map is empty.   *)
C21_PendingOnly ==
    /\ \A e \in tx_receipt_ids :
         /\ e[1] \notin ResolvedIds
         /\ \E i \in Txs : TxHashes[i] = e[2] /\ TrackedTx(i) /\ ~TerminalSeen(i)
    /\ (\A i \in Txs : TrackedTx(i) => TerminalSeen(i)) => tx_receipt_ids = {}

C21_Witness ==
    /\ pc = "done"
    /\ tx_receipt_ids = {}
    /\ Cardinality(mapAfterSeed) >= 2
    /\ \E e \in mapAfterSeed : \E i \in Txs :
         TxHashes[i] = e[2] /\ chain[i].hops >= 1 /\ e[1] = chain[i].cur /\ e[1] # chain[i].seed
    /\ \E i \in Txs : TrackedTx(i) /\ chain[i].state = "failed"
    /\ \E i \in Txs : TrackedTx(i) /\ chain[i].state = "final"
    /\ \A i \in Txs : TrackedTx(i) => TerminalSeen(i)
    /\ ResolvedIds = IssuedIds

====
